---- MODULE Spec2Model ----
(***************************************************************************)
(* Model of dex, the Docker exporter for Prometheus (0xERR0R/dex).         *)
(*                                                                         *)
(* The module models DockerCollector (Collect, processContainer and the    *)
(* five derivation methods) as a state machine: one collection cycle is    *)
(* the Collect goroutine, one processContainer goroutine per enumerated    *)
(* container, the metric channel and the goroutine that receives from it.  *)
(*                                                                         *)
(* Numbers.  The Docker API counters are uint64 and the emitted values are *)
(* float64.  TLC's integers are 32 bits wide, so uint64 is modelled as the *)
(* integers modulo MaxUint + 1 (subtraction wraps exactly as in Go) and a  *)
(* float64 is modelled as an exact non-negative rational, or +Inf, or NaN, *)
(* with the IEEE-754 rules for division by zero and for 0 * Inf.  Rounding *)
(* of float64 is not modelled.                                             *)
(***************************************************************************)
EXTENDS Integers, Sequences, FiniteSets, TLC

(***************************************************************************)
(* Bounds of the model                                                     *)
(***************************************************************************)
\* the largest value of the model's unsigned counters (math.MaxUint64 in Go)
MaxUint == 255
\* the largest number of containers the runtime lists in one cycle
MaxContainers == 2
\* the capacity of the metric channel handed to Collect
ChanCap == 1
\* the largest restart count the inspect call reports
MaxRestartCount == 1

(***************************************************************************)
(* uint64 arithmetic                                                       *)
(***************************************************************************)
UintMod == MaxUint + 1

\* a - b on uint64: Go wraps around on underflow
USub(a, b) == (a - b + UintMod) % UintMod

\* a + b on uint64
UAdd(a, b) == (a + b) % UintMod

(***************************************************************************)
(* float64 arithmetic on values that are never negative                    *)
(***************************************************************************)
RECURSIVE Gcd(_, _)
Gcd(a, b) == IF b = 0 THEN a ELSE Gcd(b, a % b)

NaN == [k |-> "nan", n |-> 0, d |-> 0]

PosInf == [k |-> "inf", n |-> 1, d |-> 0]

\* the finite value n/d (d > 0), in lowest terms
Fin(n, d) == LET g == Gcd(n, d) IN [k |-> "fin", n |-> n \div g, d |-> d \div g]

\* float64(u) for an unsigned integer u
Float64(u) == Fin(u, 1)

IsFinite(x) == x.k = "fin"

\* x / y in float64: 0/0 and Inf/Inf are NaN, x/0 is +Inf, x/Inf is 0
FDiv(x, y) ==
    IF x.k = "nan" \/ y.k = "nan" THEN NaN
    ELSE IF x.k = "inf" THEN (IF y.k = "inf" THEN NaN ELSE PosInf)
    ELSE IF y.k = "inf" THEN Fin(0, 1)
    ELSE IF y.n = 0 THEN (IF x.n = 0 THEN NaN ELSE PosInf)
    ELSE Fin(x.n * y.d, x.d * y.n)

\* x * y in float64: 0 * Inf is NaN
FMul(x, y) ==
    IF x.k = "nan" \/ y.k = "nan" THEN NaN
    ELSE IF x.k = "inf" THEN (IF y.n = 0 THEN NaN ELSE PosInf)
    ELSE IF y.k = "inf" THEN (IF x.n = 0 THEN NaN ELSE PosInf)
    ELSE Fin(x.n * y.n, x.d * y.d)

\* the float64 constants of the derivations
Hundred == Fin(100, 1)

NanosPerSecond == Fin(1000000000, 1)

(***************************************************************************)
(* Measurements                                                            *)
(***************************************************************************)
GaugeValue == "gauge"

CounterValue == "counter"

\* prometheus.MustNewConstMetric(prometheus.NewDesc(name, help, labelNames, nil),
\* kind, value, labelValues...)
MustNewConstMetric(name, kind, value, labelNames, labelValues) ==
    [name |-> name, kind |-> kind, value |-> value,
     labelNames |-> labelNames, labels |-> labelValues]

(***************************************************************************)
(* Strings.  A Go string is a sequence of one-character strings, so that   *)
(* Join, TrimPrefix, EqualFold and FormatInt are computed as Go computes   *)
(* them.  Label names, metric names and map keys, which the code only      *)
(* compares as wholes, are TLA+ strings.                                   *)
(***************************************************************************)
\* unicode.ToLower on the letters of the model's alphabet
ToLower(ch) ==
    CASE ch = "R" -> "r" [] ch = "E" -> "e" [] ch = "A" -> "a" [] ch = "D" -> "d"
      [] ch = "W" -> "w" [] ch = "I" -> "i" [] ch = "T" -> "t" [] ch = "O" -> "o"
      [] ch = "L" -> "l" [] ch = "S" -> "s" [] ch = "Y" -> "y" [] ch = "N" -> "n"
      [] ch = "C" -> "c"
      [] OTHER -> ch

\* strings.EqualFold(s, t)
EqualFold(s, t) ==
    /\ Len(s) = Len(t)
    /\ \A i \in 1..Len(s) : ToLower(s[i]) = ToLower(t[i])

\* strings.HasPrefix(s, prefix)
HasPrefix(s, prefix) ==
    /\ Len(s) >= Len(prefix)
    /\ SubSeq(s, 1, Len(prefix)) = prefix

\* strings.TrimPrefix(s, prefix)
TrimPrefix(s, prefix) ==
    IF HasPrefix(s, prefix) THEN SubSeq(s, Len(prefix) + 1, Len(s)) ELSE s

\* strings.Join(elems, sep)
RECURSIVE Join(_, _)
Join(elems, sep) ==
    IF Len(elems) = 0 THEN <<>>
    ELSE IF Len(elems) = 1 THEN elems[1]
    ELSE elems[1] \o sep \o Join(Tail(elems), sep)

Digit(n) ==
    CASE n = 0 -> "0" [] n = 1 -> "1" [] n = 2 -> "2" [] n = 3 -> "3" [] n = 4 -> "4"
      [] n = 5 -> "5" [] n = 6 -> "6" [] n = 7 -> "7" [] n = 8 -> "8" [] n = 9 -> "9"

\* strconv.FormatInt(n, 10) for n >= 0
RECURSIVE FormatInt(_)
FormatInt(n) ==
    IF n < 10 THEN <<Digit(n)>> ELSE FormatInt(n \div 10) \o <<Digit(n % 10)>>

(***************************************************************************)
(* The stats sample (container.StatsResponse)                              *)
(***************************************************************************)
\* a Go map with no key
EmptyMap == [key \in {} |-> 0]

\* m[key] on a Go map: the zero value when the key is absent
MapGet(m, key, zero) == IF key \in DOMAIN m THEN m[key] ELSE zero

\* the zero value of container.NetworkStats
ZeroNetworkStats == [RxBytes |-> 0, TxBytes |-> 0]

\* the zero value of container.StatsResponse: var containerStats container.StatsResponse
ZeroStats ==
    [CPUStats    |-> [CPUUsage |-> [TotalUsage |-> 0], SystemUsage |-> 0,
                      OnlineCPUs |-> 0],
     PreCPUStats |-> [CPUUsage |-> [TotalUsage |-> 0], SystemUsage |-> 0,
                      OnlineCPUs |-> 0],
     MemoryStats |-> [Usage |-> 0, Limit |-> 0, Stats |-> EmptyMap],
     Networks    |-> EmptyMap,
     BlkioStats  |-> [IoServiceBytesRecursive |-> <<>>],
     PidsStats   |-> [Current |-> 0]]

(***************************************************************************)
(* The derivations.  Each operator is the sequence of measurements the     *)
(* method sends on the channel, in the order it sends them.                *)
(***************************************************************************)
\* the mutation of CPUMetrics that leaves the online-CPU count out
CPUMetricsNoCPUCount(containerStats, labelNames, labelValues) ==
    LET totalUsage == containerStats.CPUStats.CPUUsage.TotalUsage
        cpuDelta == USub(totalUsage, containerStats.PreCPUStats.CPUUsage.TotalUsage)
        sysemDelta == USub(containerStats.CPUStats.SystemUsage,
                           containerStats.PreCPUStats.SystemUsage)
        cpuUtilization == FMul(FDiv(Float64(cpuDelta), Float64(sysemDelta)), Hundred)
    IN  << MustNewConstMetric("dex_cpu_utilization_percent", GaugeValue,
                              cpuUtilization, labelNames, labelValues),
           MustNewConstMetric("dex_cpu_utilization_seconds_total", CounterValue,
                              FDiv(Float64(totalUsage), NanosPerSecond),
                              labelNames, labelValues) >>

CPUMetrics(containerStats, labelNames, labelValues) ==
    LET totalUsage == containerStats.CPUStats.CPUUsage.TotalUsage
        cpuDelta == USub(totalUsage, containerStats.PreCPUStats.CPUUsage.TotalUsage)
        sysemDelta == USub(containerStats.CPUStats.SystemUsage,
                           containerStats.PreCPUStats.SystemUsage)
        onlineCPUs == containerStats.CPUStats.OnlineCPUs
        cpuUtilization ==
            FMul(FMul(FDiv(Float64(cpuDelta), Float64(sysemDelta)), Float64(onlineCPUs)),
                 Hundred)
    IN  << MustNewConstMetric("dex_cpu_utilization_percent", GaugeValue,
                              cpuUtilization, labelNames, labelValues),
           MustNewConstMetric("dex_cpu_utilization_seconds_total", CounterValue,
                              FDiv(Float64(totalUsage), NanosPerSecond),
                              labelNames, labelValues) >>

networkMetrics(containerStats, labelNames, labelValues) ==
    LET eth0 == MapGet(containerStats.Networks, "eth0", ZeroNetworkStats)
    IN  << MustNewConstMetric("dex_network_rx_bytes_total", CounterValue,
                              Float64(eth0.RxBytes), labelNames, labelValues),
           MustNewConstMetric("dex_network_tx_bytes_total", CounterValue,
                              Float64(eth0.TxBytes), labelNames, labelValues) >>

\* the mutation of getCacheMemory that prefers the legacy field
getCacheMemoryLegacyFirst(stats) ==
    IF "cache" \in DOMAIN stats THEN stats["cache"]
    ELSE IF "total_inactive_file" \in DOMAIN stats THEN stats["total_inactive_file"]
    ELSE MapGet(stats, "inactive_file", 0)

getCacheMemory(stats) ==
    IF "inactive_file" \in DOMAIN stats THEN stats["inactive_file"]
    ELSE IF "total_inactive_file" \in DOMAIN stats THEN stats["total_inactive_file"]
    ELSE MapGet(stats, "cache", 0)

memoryMetrics(containerStats, labelNames, labelValues) ==
    LET memoryUsage == USub(containerStats.MemoryStats.Usage,
                            getCacheMemory(containerStats.MemoryStats.Stats))
        memoryTotal == containerStats.MemoryStats.Limit
        memoryUtilization ==
            FMul(FDiv(Float64(memoryUsage), Float64(memoryTotal)), Hundred)
    IN  << MustNewConstMetric("dex_memory_usage_bytes", CounterValue,
                              Float64(memoryUsage), labelNames, labelValues),
           MustNewConstMetric("dex_memory_total_bytes", GaugeValue,
                              Float64(memoryTotal), labelNames, labelValues),
           MustNewConstMetric("dex_memory_utilization_percent", GaugeValue,
                              memoryUtilization, labelNames, labelValues) >>

\* the mutation of blockIoTotals that compares the operation tag exactly
RECURSIVE blockIoTotalsCaseSensitive(_, _, _)
blockIoTotalsCaseSensitive(entries, readTotal, writeTotal) ==
    IF entries = <<>> THEN <<readTotal, writeTotal>>
    ELSE LET b == Head(entries)
             r == IF b.Op = <<"r", "e", "a", "d">>
                  THEN UAdd(readTotal, b.Value) ELSE readTotal
             w == IF b.Op = <<"w", "r", "i", "t", "e">>
                  THEN UAdd(writeTotal, b.Value) ELSE writeTotal
         IN  blockIoTotalsCaseSensitive(Tail(entries), r, w)

\* the loop of blockIoMetrics over entries: <<readTotal, writeTotal>>
RECURSIVE blockIoTotals(_, _, _)
blockIoTotals(entries, readTotal, writeTotal) ==
    IF entries = <<>> THEN <<readTotal, writeTotal>>
    ELSE LET b == Head(entries)
             r == IF EqualFold(b.Op, <<"r", "e", "a", "d">>)
                  THEN UAdd(readTotal, b.Value) ELSE readTotal
             w == IF EqualFold(b.Op, <<"w", "r", "i", "t", "e">>)
                  THEN UAdd(writeTotal, b.Value) ELSE writeTotal
         IN  blockIoTotals(Tail(entries), r, w)

blockIoMetrics(containerStats, labelNames, labelValues) ==
    LET totals == blockIoTotals(containerStats.BlkioStats.IoServiceBytesRecursive, 0, 0)
    IN  << MustNewConstMetric("dex_block_io_read_bytes_total", CounterValue,
                              Float64(totals[1]), labelNames, labelValues),
           MustNewConstMetric("dex_block_io_write_bytes_total", CounterValue,
                              Float64(totals[2]), labelNames, labelValues) >>

pidsMetrics(containerStats, labelNames, labelValues) ==
    << MustNewConstMetric("dex_pids_current", CounterValue,
                          Float64(containerStats.PidsStats.Current),
                          labelNames, labelValues) >>

(***************************************************************************)
(* Containers and labels                                                   *)
(***************************************************************************)
labelCname == <<"container_name">>

\* the mutation of getLabelValuesLoop that appends nothing for an unknown label
RECURSIVE getLabelValuesLoopSkipsUnknown(_, _, _)
getLabelValuesLoopSkipsUnknown(labels, cont, labelValues) ==
    IF labels = <<>> THEN labelValues
    ELSE LET label == Head(labels)
             values == CASE label = "image"    -> <<cont.Image>>
                         [] label = "image_id" -> <<cont.ID>>
                         [] label = "command"  -> <<cont.Command>>
                         [] label = "created"  -> <<FormatInt(cont.Created)>>
                         [] OTHER              -> <<>>
         IN  getLabelValuesLoopSkipsUnknown(Tail(labels), cont, labelValues \o values)

\* the loop of getLabelValues over c.labels, appending to labelValues
RECURSIVE getLabelValuesLoop(_, _, _)
getLabelValuesLoop(labels, cont, labelValues) ==
    IF labels = <<>> THEN labelValues
    ELSE LET label == Head(labels)
             value == CASE label = "image"    -> cont.Image
                        [] label = "image_id" -> cont.ID
                        [] label = "command"  -> cont.Command
                        [] label = "created"  -> FormatInt(cont.Created)
                        [] OTHER              -> <<>>
         IN  getLabelValuesLoop(Tail(labels), cont, Append(labelValues, value))

getLabelValues(labels, cont, cName) == getLabelValuesLoop(labels, cont, <<cName>>)

\* cName := strings.TrimPrefix(strings.Join(cont.Names, ";"), "/")
ContainerName(cont) == TrimPrefix(Join(cont.Names, <<";">>), <<"/">>)

\* labelNames := append(labelCname, c.labels...)
LabelNames(labels) == labelCname \o labels

\* var isRunning float64; if cont.State == "running" { isRunning = 1 }
IsRunning(cont) == IF cont.State = "running" THEN 1 ELSE 0

IsRestarting(cont) == IF cont.State = "restarting" THEN 1 ELSE 0

IsExited(cont) == IF cont.State = "exited" THEN 1 ELSE 0

\* the mutation of LifecycleGauges that reports a restarting container as exited too
LifecycleGaugesOverlap(cont, labelNames, labelValues) ==
    << MustNewConstMetric("dex_container_running", GaugeValue,
                          Float64(IsRunning(cont)), labelNames, labelValues),
       MustNewConstMetric("dex_container_restarting", GaugeValue,
                          Float64(IsRestarting(cont)), labelNames, labelValues),
       MustNewConstMetric("dex_container_exited", GaugeValue,
                          Float64(IF cont.State # "running" THEN 1 ELSE 0),
                          labelNames, labelValues) >>

\* the three state measurements processContainer sends first, for every container
LifecycleGauges(cont, labelNames, labelValues) ==
    << MustNewConstMetric("dex_container_running", GaugeValue,
                          Float64(IsRunning(cont)), labelNames, labelValues),
       MustNewConstMetric("dex_container_restarting", GaugeValue,
                          Float64(IsRestarting(cont)), labelNames, labelValues),
       MustNewConstMetric("dex_container_exited", GaugeValue,
                          Float64(IsExited(cont)), labelNames, labelValues) >>

\* the measurement sent when the inspect call succeeds
RestartsTotal(inspect, labelNames, labelValues) ==
    << MustNewConstMetric("dex_container_restarts_total", CounterValue,
                          Float64(inspect.RestartCount), labelNames, labelValues) >>

\* the mutation of StatsWanted that asks for the stats of every container
StatsWantedAlways(isRunning) == TRUE

\* stats metrics only for running containers: if isRunning == 1
StatsWanted(isRunning) == isRunning = 1

\* the mutation of StatsMetrics with dex_memory_total_bytes sent as a counter
StatsMetricsTotalAsCounter(containerStats, labelNames, labelValues) ==
    LET mem == memoryMetrics(containerStats, labelNames, labelValues)
    IN  blockIoMetrics(containerStats, labelNames, labelValues)
        \o << mem[1], [mem[2] EXCEPT !.kind = CounterValue], mem[3] >>
        \o networkMetrics(containerStats, labelNames, labelValues)
        \o CPUMetrics(containerStats, labelNames, labelValues)
        \o pidsMetrics(containerStats, labelNames, labelValues)

\* the five derivations in the order processContainer calls them
StatsMetrics(containerStats, labelNames, labelValues) ==
    blockIoMetrics(containerStats, labelNames, labelValues)
    \o memoryMetrics(containerStats, labelNames, labelValues)
    \o networkMetrics(containerStats, labelNames, labelValues)
    \o CPUMetrics(containerStats, labelNames, labelValues)
    \o pidsMetrics(containerStats, labelNames, labelValues)

(***************************************************************************)
(* What the runtime may answer                                             *)
(***************************************************************************)
Tasks == 1..MaxContainers

ContainerStates == {"running", "restarting", "exited", "paused"}

\* the i-th container of a listing; the second one carries two names
Container(i, state) ==
    [ID      |-> <<"i", "d", Digit(i % 10)>>,
     Names   |-> IF i = 2 THEN << <<"/", "d", "b">>, <<"/", "a", "/", "d", "b">> >>
                 ELSE << <<"/", "c", Digit(i % 10)>> >>,
     Image   |-> <<"i", "m", "g">>,
     ImageID |-> <<"s", "h", "a", Digit(i % 10)>>,
     Command |-> <<"s", "h">>,
     Created |-> 170 + i,
     State   |-> state]

\* the answers of ContainerList(All: true): up to MaxContainers containers
ContainerLists ==
    UNION { { [i \in 1..n |-> Container(i, f[i])] : f \in [1..n -> ContainerStates] } :
            n \in 0..MaxContainers }

\* the answers of ContainerInspect
InspectResults == { [RestartCount |-> r] : r \in 0..MaxRestartCount }

\* a sample of a busy container, 5 CPUs online
SampleBusy ==
    [CPUStats    |-> [CPUUsage |-> [TotalUsage |-> 2], SystemUsage |-> 21,
                      OnlineCPUs |-> 5],
     PreCPUStats |-> [CPUUsage |-> [TotalUsage |-> 1], SystemUsage |-> 1,
                      OnlineCPUs |-> 5],
     MemoryStats |-> [Usage |-> 8, Limit |-> 16, Stats |-> [key \in {"cache"} |-> 2]],
     Networks    |-> [key \in {"eth0"} |-> [RxBytes |-> 3, TxBytes |-> 4]],
     BlkioStats  |-> [IoServiceBytesRecursive |->
                        << [Op |-> <<"R", "e", "a", "d">>, Value |-> 1],
                           [Op |-> <<"W", "r", "i", "t", "e">>, Value |-> 2],
                           [Op |-> <<"T", "o", "t", "a", "l">>, Value |-> 3] >>],
     PidsStats   |-> [Current |-> 4]]

\* a first observation: the two CPU readings are the same, no limit, no eth0
SampleFirst ==
    [CPUStats    |-> [CPUUsage |-> [TotalUsage |-> 2], SystemUsage |-> 21,
                      OnlineCPUs |-> 1],
     PreCPUStats |-> [CPUUsage |-> [TotalUsage |-> 2], SystemUsage |-> 21,
                      OnlineCPUs |-> 1],
     MemoryStats |-> [Usage |-> 8, Limit |-> 0, Stats |-> EmptyMap],
     Networks    |-> EmptyMap,
     BlkioStats  |-> [IoServiceBytesRecursive |-> <<>>],
     PidsStats   |-> [Current |-> 1]]

\* the samples a stats body decodes to
StatsSamples == {SampleBusy, SampleFirst}

\* what containerStats holds after Decode returned an error: the zero value, or
\* the fields decoded before the error
FailedDecodes == {ZeroStats, [SampleBusy EXCEPT !.MemoryStats = ZeroStats.MemoryStats]}

\* the configurations of DEX_LABELS
LabelConfigs == {<<>>, <<"image_id", "zone">>}

(***************************************************************************)
(* State                                                                   *)
(***************************************************************************)
VARIABLES
    labels,        \* c.labels, set by newDockerCollector
    proc,          \* "running", "exited" (os.Exit) or "panicked"
    exitCode,      \* the status given to os.Exit
    collectPc,     \* Collect: "list", "loop" (range and wg.Wait), "returned", "closed"
    containers,    \* the containers ContainerList returned
    next,          \* the index of the next container of the range loop
    wg,            \* the counter of the sync.WaitGroup
    pc,            \* per task: where processContainer is
    sendq,         \* per task: the measurements it is about to send, in order
    ch,            \* the buffer of the metric channel
    closed,        \* the channel was closed by the caller of Collect
    emitted,       \* per task: the measurements it has sent
    received,      \* per task: its measurements the receiver has taken
    listCalls,     \* the number of ContainerList calls of the cycle
    listRes,       \* "none", "ok" or "err": how the ContainerList call ended
    inspectCalls,  \* per task: the number of ContainerInspect calls
    statsCalls,    \* per task: the number of ContainerStats calls
    inspectRes,    \* per task: "none", "ok" or "err"
    statsRes,      \* per task: "none", "ok" or "err"
    decodeRes,     \* per task: "none", "ok" or "err"
    inspected,     \* per task: the answer of its inspect call
    sample,        \* the stats sample handed to a derivation method on its own
    derived,       \* the measurements that method sent
    rederived,     \* the measurements a second call on the same sample sent
    history,       \* the samples derived so far, each with the measurements sent
    resolved       \* the label values getLabelValues returned

deriverVars == << sample, derived, rederived, history, resolved >>

vars == << labels, proc, exitCode, collectPc, containers, next, wg, pc, sendq, ch,
           closed, emitted, received, listCalls, listRes, inspectCalls, statsCalls,
           inspectRes, statsRes, decodeRes, inspected, deriverVars >>

cycleVars == << collectPc, containers, next, wg, pc, sendq, ch, closed, emitted,
                received, listCalls, listRes, inspectCalls, statsCalls, inspectRes,
                statsRes, decodeRes, inspected >>

taskLog == << inspectCalls, statsCalls, inspectRes, statsRes, decodeRes, inspected >>

NoInspect == [RestartCount |-> 0]

\* no derivation method was called on its own
DeriverIdle ==
    /\ derived = <<>>
    /\ rederived = <<>>
    /\ history = {}
    /\ resolved = <<>>

\* the state of a cycle before Collect is called, with a fresh channel
CycleStart ==
    /\ collectPc = "list"
    /\ containers = <<>>
    /\ next = 1
    /\ wg = 0
    /\ pc = [i \in Tasks |-> "none"]
    /\ sendq = [i \in Tasks |-> <<>>]
    /\ ch = <<>>
    /\ closed = FALSE
    /\ emitted = [i \in Tasks |-> <<>>]
    /\ received = [i \in Tasks |-> <<>>]
    /\ listCalls = 0
    /\ listRes = "none"
    /\ inspectCalls = [i \in Tasks |-> 0]
    /\ statsCalls = [i \in Tasks |-> 0]
    /\ inspectRes = [i \in Tasks |-> "none"]
    /\ statsRes = [i \in Tasks |-> "none"]
    /\ decodeRes = [i \in Tasks |-> "none"]
    /\ inspected = [i \in Tasks |-> NoInspect]

Init ==
    /\ labels \in LabelConfigs
    /\ proc = "running"
    /\ exitCode = 0
    /\ CycleStart
    /\ sample = ZeroStats
    /\ DeriverIdle

(***************************************************************************)
(* Collect                                                                 *)
(***************************************************************************)
\* the mutation of ContainerListErr that ends the process, as newDockerCollector does
ContainerListErrExits ==
    /\ proc = "running"
    /\ collectPc = "list"
    /\ listCalls' = listCalls + 1
    /\ listRes' = "err"
    /\ proc' = "exited"
    /\ exitCode' = 1
    /\ UNCHANGED << labels, collectPc, containers, next, wg, pc, sendq, ch, closed,
                    emitted, received, taskLog, deriverVars >>

\* ContainerList fails: the error is logged and Collect returns
ContainerListErr ==
    /\ proc = "running"
    /\ collectPc = "list"
    /\ listCalls' = listCalls + 1
    /\ listRes' = "err"
    /\ collectPc' = "returned"
    /\ UNCHANGED << labels, proc, exitCode, containers, next, wg, pc, sendq, ch, closed,
                    emitted, received, taskLog, deriverVars >>

\* ContainerList answers with a list of containers
ContainerListOK ==
    /\ proc = "running"
    /\ collectPc = "list"
    /\ listCalls' = listCalls + 1
    /\ listRes' = "ok"
    /\ \E list \in ContainerLists : containers' = list
    /\ collectPc' = "loop"
    /\ UNCHANGED << labels, proc, exitCode, next, wg, pc, sendq, ch, closed,
                    emitted, received, taskLog, deriverVars >>

\* one turn of the range loop: wg.Add(1); go c.processContainer(container, ch, &wg).
\* The new goroutine has computed its label values and its three state values.
Spawn ==
    /\ proc = "running"
    /\ collectPc = "loop"
    /\ next <= Len(containers)
    /\ wg' = wg + 1
    /\ pc' = [pc EXCEPT ![next] = "gauges"]
    /\ sendq' = [sendq EXCEPT ![next] =
                    LifecycleGauges(containers[next], LabelNames(labels),
                        getLabelValues(labels, containers[next],
                                       ContainerName(containers[next])))]
    /\ next' = next + 1
    /\ UNCHANGED << labels, proc, exitCode, collectPc, containers, ch, closed,
                    emitted, received, listCalls, listRes, taskLog, deriverVars >>

\* the mutation of WaitReturns that does not wait for the tasks
WaitReturnsAtOnce(counter) == TRUE

\* wg.Wait() returns when the counter is zero
WaitReturns(counter) == counter = 0

\* the loop is over and wg.Wait() returns: Collect returns
Wait ==
    /\ proc = "running"
    /\ collectPc = "loop"
    /\ next > Len(containers)
    /\ WaitReturns(wg)
    /\ collectPc' = "returned"
    /\ UNCHANGED << labels, proc, exitCode, containers, next, wg, pc, sendq, ch, closed,
                    emitted, received, listCalls, listRes, taskLog, deriverVars >>

(***************************************************************************)
(* processContainer                                                        *)
(***************************************************************************)
LabelValuesOf(i) ==
    getLabelValues(labels, containers[i], ContainerName(containers[i]))

\* ch <- m, by task i.  The measurement goes into the buffer when there is room, or
\* straight to the receiver when the buffer is empty; a send on a closed channel
\* panics.
Send(i) ==
    /\ proc = "running"
    /\ sendq[i] # <<>>
    /\ LET m == [task |-> i, metric |-> Head(sendq[i])]
       IN  IF closed
           THEN /\ proc' = "panicked"
                /\ UNCHANGED << sendq, ch, emitted, received >>
           ELSE /\ proc' = proc
                /\ sendq' = [sendq EXCEPT ![i] = Tail(@)]
                /\ emitted' = [emitted EXCEPT ![i] = Append(@, m.metric)]
                /\ \/ /\ Len(ch) < ChanCap
                      /\ ch' = Append(ch, m)
                      /\ UNCHANGED received
                   \/ /\ ch = <<>>
                      /\ received' = [received EXCEPT ![i] = Append(@, m.metric)]
                      /\ UNCHANGED ch
    /\ UNCHANGED << labels, exitCode, collectPc, containers, next, wg, pc, closed,
                    listCalls, listRes, taskLog, deriverVars >>

\* the mutation of ContainerInspectErr that logs the error and gives the container up
ContainerInspectErrSkips(i) ==
    /\ proc = "running"
    /\ pc[i] = "gauges"
    /\ sendq[i] = <<>>
    /\ inspectCalls' = [inspectCalls EXCEPT ![i] = @ + 1]
    /\ inspectRes' = [inspectRes EXCEPT ![i] = "err"]
    /\ pc' = [pc EXCEPT ![i] = "done"]
    /\ wg' = wg - 1
    /\ UNCHANGED << labels, proc, exitCode, collectPc, containers, next, sendq, ch,
                    closed, emitted, received, listCalls, listRes, statsCalls, statsRes,
                    decodeRes, inspected, deriverVars >>

\* ContainerInspect fails: the error is logged, os.Exit(1) comes next
ContainerInspectErr(i) ==
    /\ proc = "running"
    /\ pc[i] = "gauges"
    /\ sendq[i] = <<>>
    /\ inspectCalls' = [inspectCalls EXCEPT ![i] = @ + 1]
    /\ inspectRes' = [inspectRes EXCEPT ![i] = "err"]
    /\ pc' = [pc EXCEPT ![i] = "fatal"]
    /\ UNCHANGED << labels, proc, exitCode, collectPc, containers, next, wg, sendq, ch,
                    closed, emitted, received, listCalls, listRes, statsCalls, statsRes,
                    decodeRes, inspected, deriverVars >>

\* ContainerInspect answers: the restart count is sent next
ContainerInspectOK(i) ==
    /\ proc = "running"
    /\ pc[i] = "gauges"
    /\ sendq[i] = <<>>
    /\ inspectCalls' = [inspectCalls EXCEPT ![i] = @ + 1]
    /\ inspectRes' = [inspectRes EXCEPT ![i] = "ok"]
    /\ \E inspect \in InspectResults :
          /\ inspected' = [inspected EXCEPT ![i] = inspect]
          /\ sendq' = [sendq EXCEPT ![i] = RestartsTotal(inspect, LabelNames(labels), LabelValuesOf(i))]
    /\ pc' = [pc EXCEPT ![i] = "restarts"]
    /\ UNCHANGED << labels, proc, exitCode, collectPc, containers, next, wg, ch,
                    closed, emitted, received, listCalls, listRes, statsCalls, statsRes,
                    decodeRes, deriverVars >>

\* the mutation of ContainerStatsErr that logs the error and calls ContainerStats
\* again, up to twice
ContainerStatsErrRetries(i) ==
    /\ proc = "running"
    /\ pc[i] = "restarts"
    /\ sendq[i] = <<>>
    /\ StatsWanted(IsRunning(containers[i]))
    /\ statsCalls[i] < 2
    /\ statsCalls' = [statsCalls EXCEPT ![i] = @ + 1]
    /\ statsRes' = [statsRes EXCEPT ![i] = "err"]
    /\ UNCHANGED << labels, proc, exitCode, collectPc, containers, next, wg, pc, sendq,
                    ch, closed, emitted, received, listCalls, listRes, inspectCalls,
                    inspectRes, decodeRes, inspected, deriverVars >>

\* ContainerStats fails: the error is logged, os.Exit(1) comes next
ContainerStatsErr(i) ==
    /\ proc = "running"
    /\ pc[i] = "restarts"
    /\ sendq[i] = <<>>
    /\ StatsWanted(IsRunning(containers[i]))
    /\ statsCalls' = [statsCalls EXCEPT ![i] = @ + 1]
    /\ statsRes' = [statsRes EXCEPT ![i] = "err"]
    /\ pc' = [pc EXCEPT ![i] = "fatal"]
    /\ UNCHANGED << labels, proc, exitCode, collectPc, containers, next, wg, sendq, ch,
                    closed, emitted, received, listCalls, listRes, inspectCalls, inspectRes,
                    decodeRes, inspected, deriverVars >>

\* ContainerStats answers: the body is decoded next
ContainerStatsOK(i) ==
    /\ proc = "running"
    /\ pc[i] = "restarts"
    /\ sendq[i] = <<>>
    /\ StatsWanted(IsRunning(containers[i]))
    /\ statsCalls' = [statsCalls EXCEPT ![i] = @ + 1]
    /\ statsRes' = [statsRes EXCEPT ![i] = "ok"]
    /\ pc' = [pc EXCEPT ![i] = "decode"]
    /\ UNCHANGED << labels, proc, exitCode, collectPc, containers, next, wg, sendq, ch,
                    closed, emitted, received, listCalls, listRes, inspectCalls, inspectRes,
                    decodeRes, inspected, deriverVars >>

\* Decode fails: the error is logged and the five derivations run on what
\* containerStats holds
DecodeErr(i) ==
    /\ proc = "running"
    /\ pc[i] = "decode"
    /\ decodeRes' = [decodeRes EXCEPT ![i] = "err"]
    /\ \E containerStats \in FailedDecodes :
          sendq' = [sendq EXCEPT ![i] = StatsMetrics(containerStats, LabelNames(labels),
                                               LabelValuesOf(i))]
    /\ pc' = [pc EXCEPT ![i] = "derive"]
    /\ UNCHANGED << labels, proc, exitCode, collectPc, containers, next, wg, ch, closed,
                    emitted, received, listCalls, listRes, inspectCalls, statsCalls, inspectRes,
                    statsRes, inspected, deriverVars >>

\* Decode succeeds: the five derivations run on the sample
DecodeOK(i) ==
    /\ proc = "running"
    /\ pc[i] = "decode"
    /\ decodeRes' = [decodeRes EXCEPT ![i] = "ok"]
    /\ \E containerStats \in StatsSamples :
          sendq' = [sendq EXCEPT ![i] = StatsMetrics(containerStats, LabelNames(labels),
                                               LabelValuesOf(i))]
    /\ pc' = [pc EXCEPT ![i] = "derive"]
    /\ UNCHANGED << labels, proc, exitCode, collectPc, containers, next, wg, ch, closed,
                    emitted, received, listCalls, listRes, inspectCalls, statsCalls, inspectRes,
                    statsRes, inspected, deriverVars >>

\* os.Exit(1) in the task whose inspect or stats call failed
OsExit(i) ==
    /\ proc = "running"
    /\ pc[i] = "fatal"
    /\ proc' = "exited"
    /\ exitCode' = 1
    /\ UNCHANGED << labels, cycleVars, deriverVars >>

\* the mutation of Return in which the task returns without wg.Done()
ReturnWithoutDone(i) ==
    /\ proc = "running"
    /\ sendq[i] = <<>>
    /\ \/ pc[i] = "restarts" /\ ~StatsWanted(IsRunning(containers[i]))
       \/ pc[i] = "derive"
    /\ pc' = [pc EXCEPT ![i] = "done"]
    /\ UNCHANGED << labels, proc, exitCode, collectPc, containers, next, wg, sendq, ch,
                    closed, emitted, received, listCalls, listRes, taskLog, deriverVars >>

\* processContainer returns and the deferred wg.Done() runs
Return(i) ==
    /\ proc = "running"
    /\ sendq[i] = <<>>
    /\ \/ pc[i] = "restarts" /\ ~StatsWanted(IsRunning(containers[i]))
       \/ pc[i] = "derive"
    /\ pc' = [pc EXCEPT ![i] = "done"]
    /\ wg' = wg - 1
    /\ UNCHANGED << labels, proc, exitCode, collectPc, containers, next, sendq, ch,
                    closed, emitted, received, listCalls, listRes, taskLog, deriverVars >>

(***************************************************************************)
(* The caller of Collect and the receiver of the channel                   *)
(***************************************************************************)
\* for m := range metricChan: the receiver takes the oldest measurement
Receive ==
    /\ proc = "running"
    /\ ch # <<>>
    /\ received' = [received EXCEPT ![Head(ch).task] = Append(@, Head(ch).metric)]
    /\ ch' = Tail(ch)
    /\ UNCHANGED << labels, proc, exitCode, collectPc, containers, next, wg, pc, sendq,
                    closed, emitted, listCalls, listRes, taskLog, deriverVars >>

\* go func() { collector.Collect(metricChan); close(metricChan) }()
Close ==
    /\ proc = "running"
    /\ collectPc = "returned"
    /\ closed' = TRUE
    /\ collectPc' = "closed"
    /\ UNCHANGED << labels, proc, exitCode, containers, next, wg, pc, sendq, ch,
                    emitted, received, listCalls, listRes, taskLog, deriverVars >>

\* the next scrape: Collect is called again with a fresh channel
NextCycle ==
    /\ proc = "running"
    /\ collectPc = "closed"
    /\ ch = <<>>
    /\ collectPc' = "list"
    /\ containers' = <<>>
    /\ next' = 1
    /\ wg' = 0
    /\ pc' = [i \in Tasks |-> "none"]
    /\ sendq' = [i \in Tasks |-> <<>>]
    /\ ch' = <<>>
    /\ closed' = FALSE
    /\ emitted' = [i \in Tasks |-> <<>>]
    /\ received' = [i \in Tasks |-> <<>>]
    /\ listCalls' = 0
    /\ listRes' = "none"
    /\ inspectCalls' = [i \in Tasks |-> 0]
    /\ statsCalls' = [i \in Tasks |-> 0]
    /\ inspectRes' = [i \in Tasks |-> "none"]
    /\ statsRes' = [i \in Tasks |-> "none"]
    /\ decodeRes' = [i \in Tasks |-> "none"]
    /\ inspected' = [i \in Tasks |-> NoInspect]
    /\ UNCHANGED << labels, proc, exitCode, deriverVars >>

Next ==
    \/ ContainerListErr
    \/ ContainerListOK
    \/ Spawn
    \/ Wait
    \/ \E i \in Tasks : Send(i)
    \/ \E i \in Tasks : ContainerInspectErr(i)
    \/ \E i \in Tasks : ContainerInspectOK(i)
    \/ \E i \in Tasks : ContainerStatsErr(i)
    \/ \E i \in Tasks : ContainerStatsOK(i)
    \/ \E i \in Tasks : DecodeErr(i)
    \/ \E i \in Tasks : DecodeOK(i)
    \/ \E i \in Tasks : OsExit(i)
    \/ \E i \in Tasks : Return(i)
    \/ Receive
    \/ Close
    \/ NextCycle

Spec == Init /\ [][Next]_vars

(***************************************************************************)
(* Scheduling.  The Go scheduler runs every goroutine that can run, so the *)
(* steps of Collect, of the tasks, of the receiver and of the caller are   *)
(* taken when they stay possible.  The three runtime calls are made with   *)
(* context.Background(), which has no deadline and is never cancelled: a   *)
(* call ends when the runtime answers, and nothing makes it end otherwise. *)
(* The next scrape comes when the monitoring system asks for it.           *)
(***************************************************************************)
Scheduled ==
    /\ WF_vars(Spawn)
    /\ WF_vars(Wait)
    /\ WF_vars(Receive)
    /\ WF_vars(Close)
    /\ \A i \in Tasks :
          /\ WF_vars(Send(i))
          /\ WF_vars(DecodeOK(i) \/ DecodeErr(i))
          /\ WF_vars(OsExit(i))
          /\ WF_vars(Return(i))

SpecScheduled == Init /\ [][Next]_vars /\ Scheduled

(***************************************************************************)
(* A runtime that answers.  The list call and every inspect and stats call *)
(* return without an error, and each of them does return.                  *)
(***************************************************************************)
NextAnswered ==
    \/ ContainerListOK
    \/ Spawn
    \/ Wait
    \/ \E i \in Tasks : Send(i)
    \/ \E i \in Tasks : ContainerInspectOK(i)
    \/ \E i \in Tasks : ContainerStatsOK(i)
    \/ \E i \in Tasks : DecodeErr(i)
    \/ \E i \in Tasks : DecodeOK(i)
    \/ \E i \in Tasks : Return(i)
    \/ Receive
    \/ Close
    \/ NextCycle

\* every call that was made is answered
Answered ==
    /\ WF_vars(ContainerListOK)
    /\ \A i \in Tasks :
          /\ WF_vars(ContainerInspectOK(i))
          /\ WF_vars(ContainerStatsOK(i))

SpecAnswered == Init /\ [][NextAnswered]_vars /\ Scheduled /\ Answered

(***************************************************************************)
(* CPUMetrics on its own, as TestCPUMetrics calls it: a sample is built,   *)
(* the method sends into a channel with room for its measurements, and the *)
(* measurements are read back.                                             *)
(***************************************************************************)
\* the readings of a cumulative CPU counter
CounterValues == {0, 1, 2, 21, MaxUint}

OnlineCPUValues == {0, 1, 5}

CPUSample(total, preTotal, system, preSystem, cpus) ==
    [ZeroStats EXCEPT
        !.CPUStats = [CPUUsage |-> [TotalUsage |-> total], SystemUsage |-> system,
                      OnlineCPUs |-> cpus],
        !.PreCPUStats = [CPUUsage |-> [TotalUsage |-> preTotal],
                         SystemUsage |-> preSystem, OnlineCPUs |-> 0]]

CPUSamples ==
    { CPUSample(t, pt, sy, psy, n) :
        t \in CounterValues, pt \in CounterValues, sy \in CounterValues,
        psy \in CounterValues, n \in OnlineCPUValues }

TestLabelValues == << <<"t", "e", "s", "t">> >>

InitCPU ==
    /\ labels = <<>>
    /\ proc = "running"
    /\ exitCode = 0
    /\ CycleStart
    /\ sample \in CPUSamples
    /\ DeriverIdle

\* c.CPUMetrics(ch, stats, ...); close(ch); the measurements are read from ch
DeriveCPU ==
    /\ derived = <<>>
    /\ derived' = CPUMetrics(sample, labelCname, TestLabelValues)
    /\ UNCHANGED << labels, proc, exitCode, cycleVars, sample, rederived, history,
                    resolved >>

NextCPU == DeriveCPU

SpecCPU == InitCPU /\ [][NextCPU]_vars

(***************************************************************************)
(* The five derivation methods on their own, as the unit tests call them:  *)
(* a sample is built, the methods send into a channel with room for their  *)
(* measurements, and the measurements are read back.  The methods are      *)
(* called a second time on the same sample, and then on the sample of a    *)
(* later cycle.                                                            *)
(***************************************************************************)
\* the largest number of block-I/O entries of a built sample
MaxEntries == 3

\* the sequences of at most n elements of S
SeqsUpTo(S, n) == UNION { [1..k -> S] : k \in 0..n }

\* the fields of memory.stat that getCacheMemory reads
CacheKeys == {"inactive_file", "total_inactive_file", "cache"}

\* a value for each field, so that the field that was read is told by the result
CacheValue ==
    [key \in CacheKeys |->
        CASE key = "inactive_file" -> 10
          [] key = "total_inactive_file" -> 20
          [] OTHER -> 25]

\* MemoryStats.Stats: each field is absent, present as zero or present with its value
CacheMaps ==
    { [key \in keys |-> IF key \in zeros THEN 0 ELSE CacheValue[key]] :
        keys \in SUBSET CacheKeys, zeros \in SUBSET CacheKeys }

\* TestMemoryMetrics' sample in units of 8 MiB (usage 100, limit 128, cache 25),
\* with a usage below the cache and a limit of zero added
MemorySamples ==
    { [ZeroStats EXCEPT !.MemoryStats = [Usage |-> u, Limit |-> l, Stats |-> m]] :
        u \in {100, 3}, l \in {0, 128}, m \in CacheMaps }

Interfaces == {"eth0", "eth1", "lo"}

\* the counters of each interface; eth0's are TestNetworkMetrics' divided by 102.4
InterfaceStats ==
    [ifc \in Interfaces |->
        CASE ifc = "eth0" -> [RxBytes |-> 10, TxBytes |-> 20]
          [] ifc = "eth1" -> [RxBytes |-> 3, TxBytes |-> 4]
          [] OTHER -> [RxBytes |-> 1, TxBytes |-> 1]]

\* the interfaces are those of any set of networks the container is attached to
NetworkSamples ==
    { [ZeroStats EXCEPT !.Networks = [ifc \in ifcs |-> InterfaceStats[ifc]]] :
        ifcs \in SUBSET Interfaces }

\* the operation tags of block-I/O entries
BlkioOps ==
    { <<"R", "e", "a", "d">>, <<"W", "R", "I", "T", "E">>,
      <<"T", "o", "t", "a", "l">>, <<"r", "e", "a", "d", "s">> }

BlkioEntries == { [Op |-> op, Value |-> v] : op \in BlkioOps, v \in {5, 10} }

\* TestBlockIoMetrics' entries divided by 100, without its second Write entry
BlkioScenario ==
    << [Op |-> <<"R", "e", "a", "d">>, Value |-> 10],
       [Op |-> <<"W", "r", "i", "t", "e">>, Value |-> 20],
       [Op |-> <<"R", "e", "a", "d">>, Value |-> 5],
       [Op |-> <<"T", "o", "t", "a", "l">>, Value |-> 45] >>

BlockIoSamples ==
    { [ZeroStats EXCEPT !.BlkioStats = [IoServiceBytesRecursive |-> entries]] :
        entries \in SeqsUpTo(BlkioEntries, MaxEntries) \cup {BlkioScenario} }

\* the samples the methods are called on first
DeriverSamples == MemorySamples \cup NetworkSamples \cup BlockIoSamples \cup StatsSamples

\* the samples of the later cycles
CycleSamples == StatsSamples

InitDeriver ==
    /\ labels = <<>>
    /\ proc = "running"
    /\ exitCode = 0
    /\ CycleStart
    /\ sample \in DeriverSamples
    /\ DeriverIdle

\* the mutation of DeriverCall in which the collector counts its calls into
\* dex_pids_current
DeriverCallCounting(containerStats) ==
    LET ms == StatsMetrics(containerStats, labelCname, TestLabelValues)
    IN  [ms EXCEPT ![Len(ms)].value =
            Float64(UAdd(containerStats.PidsStats.Current, Cardinality(history)))]

\* the five methods called on the collector, which holds cli and labels and
\* nothing the methods write
DeriverCall(containerStats) == StatsMetrics(containerStats, labelCname, TestLabelValues)

\* the five methods are called on the sample, in processContainer's order
DeriveStats ==
    /\ derived = <<>>
    /\ derived' = DeriverCall(sample)
    /\ history' = history \cup {[in |-> sample, out |-> derived']}
    /\ UNCHANGED << labels, proc, exitCode, cycleVars, sample, rederived, resolved >>

\* the five methods are called once more on the same sample
DeriveAgain ==
    /\ derived # <<>>
    /\ rederived = <<>>
    /\ rederived' = DeriverCall(sample)
    /\ UNCHANGED << labels, proc, exitCode, cycleVars, sample, derived, history,
                    resolved >>

\* a later cycle decodes its own sample into a new containerStats
NextSample ==
    /\ rederived # <<>>
    /\ sample' \in CycleSamples
    /\ derived' = <<>>
    /\ rederived' = <<>>
    /\ UNCHANGED << labels, proc, exitCode, cycleVars, history, resolved >>

NextDeriver ==
    \/ DeriveStats
    \/ DeriveAgain
    \/ NextSample

SpecDeriver == InitDeriver /\ [][NextDeriver]_vars

(***************************************************************************)
(* getLabelValues on its own: processContainer's first three statements    *)
(* for one container, under every configuration of extra label names.      *)
(***************************************************************************)
\* the largest number of extra label names of a configuration
MaxLabels == 2

\* the names DEX_LABELS may hold: the four known ones, an unknown one and the
\* empty name that strings.Split gives for an empty item
LabelChoices == {"image", "image_id", "command", "created", "zone", ""}

\* c.labels: any list of names, repeated ones included
LabelLists == SeqsUpTo(LabelChoices, MaxLabels)

\* the containers getLabelValues is called for, in any state
LabelContainers == { Container(i, state) : i \in Tasks, state \in ContainerStates }

\* Collect has listed one container and its task has not started
InitLabels ==
    /\ labels \in LabelLists
    /\ proc = "running"
    /\ exitCode = 0
    /\ collectPc = "loop"
    /\ containers \in { <<cont>> : cont \in LabelContainers }
    /\ next = 1
    /\ wg = 0
    /\ pc = [i \in Tasks |-> "none"]
    /\ sendq = [i \in Tasks |-> <<>>]
    /\ ch = <<>>
    /\ closed = FALSE
    /\ emitted = [i \in Tasks |-> <<>>]
    /\ received = [i \in Tasks |-> <<>>]
    /\ listCalls = 1
    /\ listRes = "ok"
    /\ inspectCalls = [i \in Tasks |-> 0]
    /\ statsCalls = [i \in Tasks |-> 0]
    /\ inspectRes = [i \in Tasks |-> "none"]
    /\ statsRes = [i \in Tasks |-> "none"]
    /\ decodeRes = [i \in Tasks |-> "none"]
    /\ inspected = [i \in Tasks |-> NoInspect]
    /\ sample = ZeroStats
    /\ DeriverIdle

\* cName := ...; labelValues := c.getLabelValues(cont, cName)
ResolveLabels ==
    /\ resolved = <<>>
    /\ resolved' = getLabelValues(labels, containers[1], ContainerName(containers[1]))
    /\ UNCHANGED << labels, proc, exitCode, cycleVars, sample, derived, rederived,
                    history >>

NextLabels == ResolveLabels

SpecLabels == InitLabels /\ [][NextLabels]_vars

(***************************************************************************)
(* Reading measurements                                                    *)
(***************************************************************************)
\* the values of the measurements of a sequence that carry the given name
ValuesOf(ms, name) == { ms[j].value : j \in { j \in 1..Len(ms) : ms[j].name = name } }

\* how many measurements of a sequence carry the given name
CountOf(ms, name) == Cardinality({ j \in 1..Len(ms) : ms[j].name = name })

\* the names of the measurements of a sequence
NamesOf(ms) == { ms[j].name : j \in 1..Len(ms) }

\* the deltas of the sample's CPU counters, in the counters' unsigned arithmetic
CpuDeltaOf(s) == USub(s.CPUStats.CPUUsage.TotalUsage, s.PreCPUStats.CPUUsage.TotalUsage)

SystemDeltaOf(s) == USub(s.CPUStats.SystemUsage, s.PreCPUStats.SystemUsage)

\* a value is the rational num/den (den > 0)
IsRatio(x, num, den) == IsFinite(x) /\ x.n * den = num * x.d

\* a value is total/1e9, stated without a product that leaves TLC's integers
IsNanosAsSeconds(x, total) ==
    /\ IsFinite(x)
    /\ 1000000000 % x.d = 0
    /\ x.n * (1000000000 \div x.d) = total

\* the containers of the cycle that have a task
Spawned == { i \in Tasks : pc[i] # "none" }

\* the task has sent its three state measurements
GaugesSent(i) == pc[i] # "none" /\ (pc[i] # "gauges" \/ sendq[i] = <<>>)

LifecycleNames ==
    {"dex_container_running", "dex_container_restarting", "dex_container_exited"}

\* the names of the measurements derived from a stats sample
ResourceNames ==
    {"dex_cpu_utilization_percent", "dex_cpu_utilization_seconds_total",
     "dex_memory_usage_bytes", "dex_memory_total_bytes",
     "dex_memory_utilization_percent", "dex_network_rx_bytes_total",
     "dex_network_tx_bytes_total", "dex_block_io_read_bytes_total",
     "dex_block_io_write_bytes_total", "dex_pids_current"}

\* the kind the metric contract prescribes for each of the 14 names
PrescribedKind ==
    [name \in LifecycleNames \cup ResourceNames \cup {"dex_container_restarts_total"} |->
        IF name \in LifecycleNames \cup {"dex_cpu_utilization_percent",
                                         "dex_memory_total_bytes",
                                         "dex_memory_utilization_percent"}
        THEN "gauge" ELSE "counter"]

Zero == Fin(0, 1)

One == Fin(1, 1)

(***************************************************************************)
(* C1.  Collect returns only after every task it spawned has finished:     *)
(* once Collect has returned, every enumerated container has a task that   *)
(* has returned with nothing left to send, the wait-group counter is zero, *)
(* and the caller's close of the channel is never followed by a send (no   *)
(* send on a closed channel, which would panic).                           *)
(***************************************************************************)
C1_CollectWaitsForTasks ==
    /\ proc # "panicked"
    /\ collectPc \in {"returned", "closed"} =>
          /\ wg = 0
          /\ \A i \in Tasks :
                /\ sendq[i] = <<>>
                /\ pc[i] = IF i <= Len(containers) THEN "done" ELSE "none"

\* two running containers have sent all their measurements, Collect has returned
\* and the caller has closed the channel
C1_Witness ==
    /\ collectPc = "closed"
    /\ Len(containers) = 2
    /\ \A i \in 1..2 : containers[i].State = "running" /\ Len(emitted[i]) = 14

(***************************************************************************)
(* C2.  When the list call fails the cycle aborts: Collect returns, no     *)
(* task was spawned, nothing was sent, and the process is still running.   *)
(***************************************************************************)
C2_ListFailureAborts ==
    listRes = "err" =>
        /\ collectPc \in {"returned", "closed"}
        /\ proc = "running"
        /\ exitCode = 0
        /\ wg = 0
        /\ ch = <<>>
        /\ \A i \in Tasks : pc[i] = "none" /\ emitted[i] = <<>> /\ received[i] = <<>>

C2_Witness == listRes = "err" /\ collectPc = "closed" /\ proc = "running"

(***************************************************************************)
(* C3.  For every container, whatever its state, the task sends the three  *)
(* state gauges, once each and before anything else; each is 0 or 1,       *)
(* running is 1 exactly for state "running", restarting exactly for        *)
(* "restarting", exited exactly for "exited", so at most one of them is 1  *)
(* and all are 0 for any other state.                                      *)
(***************************************************************************)
C3_LifecycleGauges ==
    \A i \in Spawned :
        LET st == containers[i].State
            ms == emitted[i]
        IN  /\ \A j \in 1..Len(ms) :
                  /\ ms[j].name = "dex_container_running" =>
                        ms[j].value = (IF st = "running" THEN One ELSE Zero)
                  /\ ms[j].name = "dex_container_restarting" =>
                        ms[j].value = (IF st = "restarting" THEN One ELSE Zero)
                  /\ ms[j].name = "dex_container_exited" =>
                        ms[j].value = (IF st = "exited" THEN One ELSE Zero)
                  /\ ms[j].name \in LifecycleNames => ms[j].kind = "gauge"
            /\ GaugesSent(i) =>
                  /\ Len(ms) >= 3
                  /\ { ms[j].name : j \in 1..3 } = LifecycleNames
                  /\ \A name \in LifecycleNames : CountOf(ms, name) = 1
                  /\ Cardinality({ j \in 1..3 : ms[j].value = One }) <= 1

\* a paused container has sent three zeros and a restarting one its single 1
C3_Witness ==
    /\ Len(containers) = 2
    /\ containers[1].State = "paused"
    /\ containers[2].State = "restarting"
    /\ \A i \in 1..2 : pc[i] = "done"
    /\ \A j \in 1..3 : emitted[1][j].value = Zero
    /\ emitted[2][2].value = One

(***************************************************************************)
(* C4.  The stats call is issued for a container exactly when its listed   *)
(* state is "running".  A container in another state whose inspect call    *)
(* succeeded gets no stats call and exactly four measurements: the three   *)
(* state gauges and dex_container_restarts_total, whose value is the       *)
(* restart count the inspect call reported.                                *)
(***************************************************************************)
C4_StatsOnlyForRunning ==
    \A i \in Spawned :
        LET st == containers[i].State
            ms == emitted[i]
        IN  /\ statsCalls[i] > 0 => st = "running"
            /\ (pc[i] = "done" /\ st = "running") => statsCalls[i] = 1
            /\ (st # "running" /\ inspectRes[i] = "ok") =>
                  /\ statsCalls[i] = 0
                  /\ NamesOf(ms) \cap ResourceNames = {}
                  /\ pc[i] = "done" =>
                        /\ Len(ms) = 4
                        /\ NamesOf(ms) = LifecycleNames \cup {"dex_container_restarts_total"}
                        /\ ms[4].name = "dex_container_restarts_total"
                        /\ ms[4].value = Fin(inspected[i].RestartCount, 1)

\* an exited container that restarted once has finished with its four measurements
C4_Witness ==
    /\ Len(containers) >= 1
    /\ containers[1].State = "exited"
    /\ pc[1] = "done"
    /\ inspected[1].RestartCount = 1
    /\ Len(emitted[1]) = 4
    /\ emitted[1][4].value = One

(***************************************************************************)
(* C5.  A failure of the stats call of one running container is contained  *)
(* to that container: the process keeps running, the container's state     *)
(* gauges and restart counter stay published and none of its resource      *)
(* measurements is sent.                                                   *)
(***************************************************************************)
C5_StatsFailureContained ==
    \A i \in Spawned :
        statsRes[i] = "err" =>
            /\ proc = "running"
            /\ Len(emitted[i]) = 4
            /\ NamesOf(emitted[i]) \cap ResourceNames = {}

(***************************************************************************)
(* C6.  When the stats call succeeds and decoding its body fails, no       *)
(* resource measurement is sent for that container in that cycle, and the  *)
(* state gauges and restart counter already sent are kept.                 *)
(***************************************************************************)
C6_DecodeFailureOmitsResources ==
    \A i \in Spawned :
        decodeRes[i] = "err" =>
            /\ NamesOf(emitted[i]) \cap ResourceNames = {}
            /\ Len(emitted[i]) = 4

(***************************************************************************)
(* C7.  When the inspect call fails for a container the process is         *)
(* terminated with status 1 from that container's task: the task does      *)
(* nothing else (no restart counter, no stats call, no resource            *)
(* measurement), it never returns, and Collect never returns.              *)
(***************************************************************************)
C7_InspectFailureIsFatal ==
    \A i \in Spawned :
        inspectRes[i] = "err" =>
            /\ pc[i] = "fatal"
            /\ sendq[i] = <<>>
            /\ NamesOf(emitted[i]) = LifecycleNames
            /\ statsCalls[i] = 0
            /\ wg > 0
            /\ collectPc = "loop"
            /\ proc # "running" => (proc = "exited" /\ exitCode = 1)

\* the first container's inspect call failed and the process has exited with
\* status 1, while the second container had sent measurements
C7_Witness ==
    /\ Len(containers) = 2
    /\ inspectRes[1] = "err"
    /\ inspectRes[2] # "err"
    /\ statsRes[2] # "err"
    /\ emitted[2] # <<>>
    /\ proc = "exited"
    /\ exitCode = 1

(***************************************************************************)
(* C8.  A running container whose inspect and stats calls succeeded has,   *)
(* when its task returns, each of the 14 metric names exactly once, each   *)
(* with the kind the contract prescribes; and no measurement with another  *)
(* name or another kind is ever sent.                                      *)
(***************************************************************************)
C8_FixedMetricSet ==
    \A i \in Spawned :
        LET ms == emitted[i]
        IN  /\ \A j \in 1..Len(ms) :
                  /\ ms[j].name \in DOMAIN PrescribedKind
                  /\ ms[j].kind = PrescribedKind[ms[j].name]
            /\ \A name \in DOMAIN PrescribedKind : CountOf(ms, name) <= 1
            /\ (pc[i] = "done" /\ containers[i].State = "running"
                /\ inspectRes[i] = "ok" /\ statsRes[i] = "ok") =>
                  /\ Len(ms) = 14
                  /\ \A name \in DOMAIN PrescribedKind : CountOf(ms, name) = 1

\* a running container whose sample decoded has finished with its 14 measurements
C8_Witness ==
    /\ Len(containers) >= 1
    /\ containers[1].State = "running"
    /\ pc[1] = "done"
    /\ decodeRes[1] = "ok"
    /\ Cardinality(NamesOf(emitted[1])) = 14

C10_UnsetCPUCount ==
    (/\ derived # <<>>
     /\ sample.CPUStats.OnlineCPUs = 0
     /\ sample.CPUStats.CPUUsage.TotalUsage >= sample.PreCPUStats.CPUUsage.TotalUsage
     /\ sample.CPUStats.SystemUsage > sample.PreCPUStats.SystemUsage) =>
        /\ Len(derived) = 2
        /\ \A v \in ValuesOf(derived, "dex_cpu_utilization_percent") :
              IsRatio(v, CpuDeltaOf(sample) * 100, SystemDeltaOf(sample))

(***************************************************************************)
(* C11.  No measurement sent carries a value that is not finite: when the  *)
(* system delta is zero or the memory limit is zero the utilization is     *)
(* left out or is a finite value.  Stated for the containers whose sample  *)
(* decoded, so that it does not rest on what a failed decode leaves.       *)
(***************************************************************************)
C11_NoNonFiniteValue ==
    \A i \in Spawned :
        decodeRes[i] # "err" =>
            \A j \in 1..Len(emitted[i]) : IsFinite(emitted[i][j].value)

(***************************************************************************)
(* C12.  For every memory sample memoryMetrics sends                       *)
(* dex_memory_usage_bytes = raw usage - resolved cache,                    *)
(* dex_memory_total_bytes = limit and, when the limit is positive,         *)
(* dex_memory_utilization_percent = (raw usage - resolved cache) / limit * *)
(* 100, where the resolved cache is the "inactive_file" field if present,  *)
(* else "total_inactive_file" if present, else "cache" if present, else 0. *)
(* Stated for the samples whose resolved cache does not exceed the raw     *)
(* usage, where the difference is a byte count.                            *)
(***************************************************************************)
ResolvedCache(stats) ==
    CASE "inactive_file" \in DOMAIN stats -> stats["inactive_file"]
      [] "inactive_file" \notin DOMAIN stats /\ "total_inactive_file" \in DOMAIN stats ->
            stats["total_inactive_file"]
      [] {"inactive_file", "total_inactive_file"} \cap DOMAIN stats = {}
         /\ "cache" \in DOMAIN stats -> stats["cache"]
      [] OTHER -> 0

C12_WitnessPriority ==
    /\ derived # <<>>
    /\ DOMAIN sample.MemoryStats.Stats = CacheKeys
    /\ sample.MemoryStats.Stats["inactive_file"] = 0
    /\ sample.MemoryStats.Stats["cache"] = 25
    /\ ValuesOf(derived, "dex_memory_usage_bytes") = {Fin(100, 1)}

(***************************************************************************)
(* C13.  For every stats sample networkMetrics sends                       *)
(* dex_network_rx_bytes_total and dex_network_tx_bytes_total equal to the  *)
(* sums of the receive and the transmit byte counters over all the         *)
(* interfaces of the sample (eth0's counters when eth0 is the only         *)
(* interface, zero when there is none).                                    *)
(***************************************************************************)
\* the sum of f[x] over the elements x of S
RECURSIVE SumOver(_, _)
SumOver(S, f) ==
    IF S = {} THEN 0
    ELSE LET x == CHOOSE y \in S : TRUE IN f[x] + SumOver(S \ {x}, f)

C13_NetworkSums ==
    derived # <<>> =>
        LET nets == sample.Networks
            rx == [ifc \in DOMAIN nets |-> nets[ifc].RxBytes]
            tx == [ifc \in DOMAIN nets |-> nets[ifc].TxBytes]
        IN  /\ ValuesOf(derived, "dex_network_rx_bytes_total") =
                  {Fin(SumOver(DOMAIN nets, rx), 1)}
            /\ ValuesOf(derived, "dex_network_tx_bytes_total") =
                  {Fin(SumOver(DOMAIN nets, tx), 1)}

(***************************************************************************)
(* C14.  For every list of block-I/O entries, the empty list included,     *)
(* blockIoMetrics sends dex_block_io_read_bytes_total = the sum of the     *)
(* values of the entries whose op is "read" whatever the case of its       *)
(* letters, and dex_block_io_write_bytes_total = the sum over the entries  *)
(* whose op is "write"; an entry with another op adds to neither total and *)
(* no entry adds to both.                                                  *)
(***************************************************************************)
\* the operation tag in lower case
LowerOp(b) == [k \in 1..Len(b.Op) |-> ToLower(b.Op[k])]

\* the sum of the values of the entries whose positions are in a set
RECURSIVE SumAt(_, _)
SumAt(entries, positions) ==
    IF positions = {} THEN 0
    ELSE LET k == CHOOSE j \in positions : TRUE
         IN  entries[k].Value + SumAt(entries, positions \ {k})

C14_BlockIoTotals ==
    derived # <<>> =>
        LET entries == sample.BlkioStats.IoServiceBytesRecursive
            reads == { k \in 1..Len(entries) : LowerOp(entries[k]) = <<"r", "e", "a", "d">> }
            writes == { k \in 1..Len(entries) :
                          LowerOp(entries[k]) = <<"w", "r", "i", "t", "e">> }
        IN  /\ reads \cap writes = {}
            /\ ValuesOf(derived, "dex_block_io_read_bytes_total") =
                  {Fin(SumAt(entries, reads), 1)}
            /\ ValuesOf(derived, "dex_block_io_write_bytes_total") =
                  {Fin(SumAt(entries, writes), 1)}
            /\ CountOf(derived, "dex_block_io_read_bytes_total") = 1
            /\ CountOf(derived, "dex_block_io_write_bytes_total") = 1

\* the spec's scenario divided by 100: (Read, 10), (Write, 20), (Read, 5),
\* (Total, 45) give 15 read and 20 written
C14_Witness ==
    /\ derived # <<>>
    /\ sample.BlkioStats.IoServiceBytesRecursive = BlkioScenario
    /\ ValuesOf(derived, "dex_block_io_read_bytes_total") = {Fin(15, 1)}
    /\ ValuesOf(derived, "dex_block_io_write_bytes_total") = {Fin(20, 1)}

(***************************************************************************)
(* C15.  For every configured list of extra label names (unknown, repeated *)
(* and empty names included) and every container, getLabelValues returns   *)
(* 1 + len(extras) values: the display name first, then one value per      *)
(* extra in the configured order, so that the values line up with the      *)
(* label names of the measurement; an unknown name gives the empty string  *)
(* at its position.                                                        *)
(***************************************************************************)
KnownLabels == {"image", "image_id", "command", "created"}

C15_LabelValuesMatchNames ==
    resolved # <<>> =>
        LET cont == containers[1]
        IN  /\ Len(resolved) = 1 + Len(labels)
            /\ Len(resolved) = Len(LabelNames(labels))
            /\ LabelNames(labels)[1] = "container_name"
            /\ resolved[1] = ContainerName(cont)
            /\ \A k \in 1..Len(labels) :
                  /\ LabelNames(labels)[k + 1] = labels[k]
                  /\ labels[k] \notin KnownLabels => resolved[k + 1] = <<>>
                  /\ labels[k] = "image" => resolved[k + 1] = cont.Image
                  /\ labels[k] = "command" => resolved[k + 1] = cont.Command
                  /\ labels[k] = "created" => resolved[k + 1] # <<>>

\* an unknown name before a known one: the empty string holds its position
C15_Witness ==
    /\ labels = <<"zone", "image">>
    /\ resolved = << <<"c", "1">>, <<>>, <<"i", "m", "g">> >>

(***************************************************************************)
(* C16.  Each known extra label resolves to the container's attribute of   *)
(* that name: "image" to the image reference, "image_id" to the image ID   *)
(* (not the container ID), "command" to the command string, "created" to   *)
(* the creation time in seconds since the epoch as a decimal string.       *)
(***************************************************************************)
C16_KnownLabelsResolve ==
    resolved # <<>> =>
        LET cont == containers[1]
        IN  \A k \in 1..Len(labels) :
                /\ labels[k] = "image" => resolved[k + 1] = cont.Image
                /\ labels[k] = "image_id" => resolved[k + 1] = cont.ImageID
                /\ labels[k] = "command" => resolved[k + 1] = cont.Command
                /\ labels[k] = "created" => resolved[k + 1] = FormatInt(cont.Created)

(***************************************************************************)
(* C17.  Every runtime call of a cycle (list, inspect, stats) is bound to  *)
(* a deadline or a cancellation scoped to the collection request, so that  *)
(* a call that never answers cannot block the cycle for ever: a cycle that *)
(* has started ends, by Collect returning or by the process ending.        *)
(***************************************************************************)
C17_CycleIsBounded ==
    (proc = "running" /\ collectPc \in {"list", "loop"})
        ~> (collectPc \in {"returned", "closed"} \/ proc # "running")

(***************************************************************************)
(* C18.  A failing runtime call for one container does not prevent the     *)
(* other containers' measurements from being sent: while another           *)
(* container's task has not returned, the process is running, so that the  *)
(* task can go on sending.  Stated for the stats call; that a failed       *)
(* inspect call ends the process is the Sampler's documented strictness.   *)
(***************************************************************************)
C18_FailureDoesNotStopOthers ==
    \A i \in Spawned :
        \A j \in Spawned \ {i} :
            (statsRes[i] = "err" /\ inspectRes[j] # "err" /\ pc[j] # "done") =>
                proc = "running"

C20_OneTaskNoRetry ==
    /\ listCalls <= 1
    /\ collectPc # "list" => listCalls = 1
    /\ Spawned = 1..(next - 1)
    /\ next - 1 <= Len(containers)
    /\ wg = Cardinality({ i \in Spawned : pc[i] # "done" })
    /\ (collectPc \in {"returned", "closed"} /\ listRes = "ok") =>
          Spawned = 1..Len(containers)
    /\ \A i \in Tasks :
          /\ inspectCalls[i] <= 1
          /\ statsCalls[i] <= 1
          /\ inspectCalls[i] = (IF inspectRes[i] = "none" THEN 0 ELSE 1)
          /\ statsCalls[i] = (IF statsRes[i] = "none" THEN 0 ELSE 1)
          /\ i \notin Spawned => inspectCalls[i] = 0 /\ statsCalls[i] = 0

\* the stats call of the first container failed after one call, the second
\* container was inspected once, and the process has ended without another call
C20_Witness ==
    /\ Len(containers) = 2
    /\ listCalls = 1
    /\ statsRes[1] = "err"
    /\ statsCalls[1] = 1
    /\ inspectCalls[1] = 1
    /\ inspectCalls[2] = 1
    /\ proc = "exited"

(***************************************************************************)
(* C21.  No value sent is the result of unsigned 64-bit wraparound: when   *)
(* the resolved cache exceeds the raw memory usage the difference modulo   *)
(* 2^64 is not sent, so that dex_memory_usage_bytes never exceeds the raw  *)
(* usage and dex_memory_utilization_percent, with a positive limit, never  *)
(* exceeds raw usage / limit * 100.                                        *)
(***************************************************************************)
C21_NoWraparound ==
    derived # <<>> =>
        LET mem == sample.MemoryStats
        IN  /\ \A v \in ValuesOf(derived, "dex_memory_usage_bytes") :
                  IsFinite(v) /\ v.n <= mem.Usage * v.d
            /\ mem.Limit > 0 =>
                  \A v \in ValuesOf(derived, "dex_memory_utilization_percent") :
                      IsFinite(v) /\ v.n * mem.Limit <= mem.Usage * 100 * v.d

(***************************************************************************)
(* C22.  The display name used as the container_name label value is built  *)
(* from the runtime's name list with the leading "/" stripped and the      *)
(* aliases joined with ";": for a single name it is that name without its  *)
(* leading "/", and for several names no alias keeps its leading "/".      *)
(***************************************************************************)
\* a name without its leading separator
StripSeparator(name) == IF HasPrefix(name, <<"/">>) THEN Tail(name) ELSE name

C22_DisplayName ==
    resolved # <<>> =>
        LET names == containers[1].Names
        IN  resolved[1] =
                Join([k \in 1..Len(names) |-> StripSeparator(names[k])], <<";">>)

(***************************************************************************)
(* C23.  Liveness of a cycle: when the list call and every inspect and     *)
(* stats call return successfully and the receiver keeps receiving from    *)
(* the channel, then under fair scheduling Collect returns, with every     *)
(* task having called Done exactly once: the wait-group counter is never   *)
(* negative and is back to zero, for any number of containers and any      *)
(* interleaving of the tasks.                                              *)
(***************************************************************************)
C23_CycleCompletes ==
    /\ [](wg >= 0 /\ wg <= Len(containers))
    /\ (collectPc = "list")
          ~> (/\ collectPc = "returned"
              /\ wg = 0
              /\ \A i \in Tasks :
                    /\ sendq[i] = <<>>
                    /\ pc[i] = IF i <= Len(containers) THEN "done" ELSE "none")

\* Collect has returned after two running containers sent all their measurements
C23_Witness ==
    /\ collectPc = "returned"
    /\ Len(containers) = 2
    /\ wg = 0
    /\ \A i \in 1..2 :
          containers[i].State = "running" /\ pc[i] = "done" /\ Len(emitted[i]) = 14

====
